---- MODULE Spec2Model ----
(***************************************************************************)
(* WsIo (src/src/ws_io.rs): the adapter that turns a web_sys::WebSocket    *)
(* into a futures Stream (poll_next) and Sink (poll_ready, start_send,     *)
(* poll_flush, poll_close), with its message callback (on_mesg), its       *)
(* Close-Wait task (wake_on_close) and its destructor (Drop).              *)
(*                                                                         *)
(* The program is single threaded: every handler below runs to completion  *)
(* before the host can fire another event, so each handler is one action.  *)
(* The host (the browser's WebSocket object) is modelled at its boundary:  *)
(* readyState, the onclose handler slot, the message and close events.     *)
(***************************************************************************)
EXTENDS Integers, Sequences, FiniteSets, TLC

\* ------------------------------------------------------------------ bounds
\* inbound message events the host delivers in one behaviour
MaxMsgs == 2
\* Close-Wait tasks spawned in one behaviour
MaxTasks == 2

\* ------------------------------------------------------------- value sets
\* the task contexts (cx.waker()) that poll the adapter
Wakers == {"w1", "w2"}
NoWaker == "none"

\* the outbound items a caller hands to start_send
Items == {[tag |-> "Text", id |-> 0], [tag |-> "Binary", id |-> 0]}
NoMsg == [tag |-> "none", id |-> 0]

VARIABLES
    readyState,   \* WebSocket.readyState: 0 CONNECTING, 1 OPEN, 2 CLOSING, 3 CLOSED
    onclose,      \* WebSocket.onclose: 0, or the Close-Wait task whose callback it holds
    queue,        \* WsIo.queue
    waker,        \* WsIo.waker
    tasks,        \* the Close-Wait tasks spawned by poll_close, in spawn order
    sent,         \* the send primitive calls the latest operation made, in order
    closeReqs,    \* ws.close() calls made by poll_close
    dropCloses,   \* ws.close() calls made by Drop
    dropped,      \* the adapter has been dropped
    panicked,     \* "none", or the operation that panicked
    suspended,    \* per task context: the operation whose Pending it waits on
    arrived,      \* history: the messages on_mesg appended, in order
    delivered,    \* history: the messages poll_next returned, in order
    pollHist,     \* history of poll_next results: "none", "fed", "starved", "ended"
    last          \* the latest adapter operation: its result and pre-state

vars == <<readyState, onclose, queue, waker, tasks, sent, closeReqs, dropCloses,
          dropped, panicked, suspended, arrived, delivered, pollHist, last>>

sockVars == <<readyState, onclose>>
sinkVars == <<closeReqs, dropCloses>>
histVars == <<arrived, delivered, pollHist>>

\* ------------------------------------------------------------- the socket
\* WsState::try_from( u16 ), as ready_state() uses it
WsStateFromU16(n) ==
    CASE n = 0 -> "Connecting"
      [] n = 1 -> "Open"
      [] n = 2 -> "Closing"
      [] n = 3 -> "Closed"

ready_state == WsStateFromU16(readyState)

\* WebSocket.close(): CONNECTING or OPEN becomes CLOSING, otherwise nothing
\* happens; a close that throws changes nothing
SocketClose(rs, ok) == IF ok /\ rs \in {0, 1} THEN 2 ELSE rs

\* the data of the n-th message event: strings and ArrayBuffers alternate
EvtData(n) == [type |-> IF n % 2 = 1 THEN "string" ELSE "arraybuffer", id |-> n]

\* what the conversion can make of data that is neither a string nor an
\* ArrayBuffer: From cannot fail, so it panics or yields some WsMessage
BlobOutcomes == {"Panic", "Text", "Binary"}

\* the n-th message event carrying such data (a Blob), with the outcome its
\* conversion will have
BlobData(n, out) == [type |-> "blob", id |-> n, out |-> out]

\* the message events the host can deliver as the n-th
MsgEvents(n) == {EvtData(n)} \cup {BlobData(n, out) : out \in BlobOutcomes}

\* WsMessage::from( &JsMsgEvent ) panics
WsMessageFromPanics(evt) == evt.type = "blob" /\ evt.out = "Panic"

\* WsMessage::from( &JsMsgEvent ): a string is Text, an ArrayBuffer is Binary
WsMessageFrom(evt) ==
    [tag |-> CASE evt.type = "string" -> "Text"
               [] evt.type = "arraybuffer" -> "Binary"
               [] OTHER -> evt.out,
     id |-> evt.id]

\* ------------------------------------------------------------ bookkeeping
NoPre ==
    [rs |-> 0, queue |-> <<>>, waker |-> NoWaker, onclose |-> 0,
     ncloses |-> 0, tasks |-> <<>>, hist |-> "none"]

Snapshot ==
    [rs |-> readyState, queue |-> queue, waker |-> waker, onclose |-> onclose,
     ncloses |-> closeReqs + dropCloses, tasks |-> tasks, hist |-> pollHist]

Idle == [op |-> "none", res |-> "none", item |-> NoMsg, pre |-> NoPre]

Op(op, res, item) ==
    [op |-> op, res |-> res, item |-> item, pre |-> Snapshot]

\* the adapter exists and its wasm instance has not aborted
Live == ~dropped /\ panicked = "none"

NoneSuspended == [w \in Wakers |-> "no"]

\* Waker::wake(): the task is no longer suspended
Wake(susp, w) == [susp EXCEPT ![w] = "no"]

\* a task that got Pending waits on that operation until it is woken, or until
\* it polls the operation again and gets a result
Polled(susp, w, op, res) ==
    IF res = "Pending" THEN [susp EXCEPT ![w] = op]
    ELSE IF susp[w] = op THEN [susp EXCEPT ![w] = "no"]
    ELSE susp

\* a panic aborts the wasm instance: its memory (queue, waker cell, tasks) is
\* gone and no callback, task or operation runs any more; of the pre-state
\* only the Close-Wait tasks the panic cut off are recorded
Abort(op, item) ==
    /\ panicked' = op
    /\ last' = [op |-> op, res |-> "Panic", item |-> item,
                pre |-> [NoPre EXCEPT !.tasks = tasks]]
    /\ queue' = <<>>
    /\ waker' = NoWaker
    /\ tasks' = <<>>
    /\ onclose' = 0
    /\ suspended' = NoneSuspended

Init ==
    /\ readyState = 0
    /\ onclose = 0
    /\ queue = <<>>
    /\ waker = NoWaker
    /\ tasks = <<>>
    /\ sent = <<>>
    /\ closeReqs = 0
    /\ dropCloses = 0
    /\ dropped = FALSE
    /\ panicked = "none"
    /\ suspended = NoneSuspended
    /\ arrived = <<>>
    /\ delivered = <<>>
    /\ pollHist = "none"
    /\ last = Idle

\* ---------------------------------------------------------------- the host
\* rt::spawn_local hands a task to the single-threaded executor, which runs
\* in the host's microtask turns: the host dispatches its next event (open,
\* message, close) only once no spawned or resolved task is left to poll
Quiescent == \A t \in 1..Len(tasks) : tasks[t].st \notin {"spawned", "fired"}

\* the connection is established: CONNECTING becomes OPEN
HostOpen ==
    /\ panicked = "none"
    /\ Quiescent
    /\ readyState = 0
    /\ readyState' = 1
    /\ last' = Idle
    /\ sent' = <<>>
    /\ UNCHANGED <<onclose, queue, waker, tasks, sinkVars, dropped, panicked,
                   suspended, histVars>>

\* the peer starts the closing handshake: OPEN becomes CLOSING
HostClosing ==
    /\ panicked = "none"
    /\ Quiescent
    /\ readyState = 1
    /\ readyState' = 2
    /\ last' = Idle
    /\ sent' = <<>>
    /\ UNCHANGED <<onclose, queue, waker, tasks, sinkVars, dropped, panicked,
                   suspended, histVars>>

\* the close event: the callback future_event stored in onclose resolves the
\* future its Close-Wait task awaits
FireClose(ts, h) ==
    IF h # 0 /\ ts[h].st = "listening" THEN [ts EXCEPT ![h].st = "fired"] ELSE ts

\* mutant: every Close-Wait task that registered a callback sees the close
\* event, as if the callbacks were added as listeners
HostCloseFiresAll ==
    /\ panicked = "none"
    /\ Quiescent
    /\ readyState # 3
    /\ readyState' = 3
    /\ tasks' = [t \in 1..Len(tasks) |->
                   IF tasks[t].st = "listening"
                     THEN [tasks[t] EXCEPT !.st = "fired"]
                     ELSE tasks[t]]
    /\ last' = Idle
    /\ sent' = <<>>
    /\ UNCHANGED <<onclose, queue, waker, sinkVars, dropped, panicked,
                   suspended, histVars>>

\* the connection is closed (or could not be established): readyState becomes
\* CLOSED and the close event is fired at the handler onclose holds
HostClose ==
    /\ panicked = "none"
    /\ Quiescent
    /\ readyState # 3
    /\ readyState' = 3
    /\ tasks' = FireClose(tasks, onclose)
    /\ last' = Idle
    /\ sent' = <<>>
    /\ UNCHANGED <<onclose, queue, waker, sinkVars, dropped, panicked,
                   suspended, histVars>>

\* ------------------------------------------------------- message callback
\* mutant: push_front instead of push_back
OnMesgQueuePushFront(q, evt) == <<WsMessageFrom(evt)>> \o q

\* the on_mesg closure: push_back of the decoded message
OnMesgQueue(q, evt) == Append(q, WsMessageFrom(evt))

\* the on_mesg closure: if let Some( w ) = waker.take()
OnMesgWakes(wk) == wk # NoWaker

\* mutant: the cell is read, not taken
OnMesgWakerKept(wk) == wk

\* the on_mesg closure: waker.take() leaves None in the cell
OnMesgWaker(wk) == NoWaker

\* the host fires a message event (only while OPEN: "when it is closing or
\* closed, no more messages will arrive") and the closure runs
OnMesg(evt) ==
    /\ Live
    /\ Quiescent
    /\ readyState = 1
    /\ Len(arrived) < MaxMsgs
    /\ IF WsMessageFromPanics(evt)
         THEN /\ Abort("on_mesg", [tag |-> evt.type, id |-> evt.id])
              /\ UNCHANGED arrived
         ELSE /\ queue' = OnMesgQueue(queue, evt)
              /\ arrived' = Append(arrived, WsMessageFrom(evt))
              /\ suspended' = IF OnMesgWakes(waker)
                                 THEN Wake(suspended, waker)
                                 ELSE suspended
              /\ waker' = OnMesgWaker(waker)
              /\ last' = Op("on_mesg",
                            IF OnMesgWakes(waker) THEN "Woke" ELSE "NoWake",
                            [tag |-> evt.type, id |-> evt.id])
              /\ UNCHANGED <<onclose, tasks, panicked>>
    /\ sent' = <<>>
    /\ UNCHANGED <<readyState, sinkVars, dropped, delivered, pollHist>>

\* ------------------------------------------------------------------ Stream
\* mutant: only Open keeps the stream pending
PollNextEmptyOnlyOpen(state) ==
    IF state = "Open" THEN "Pending" ELSE "ReadyNone"

\* poll_next with an empty queue: the match on ready_state()
PollNextEmpty(state) ==
    IF state \in {"Open", "Connecting"} THEN "Pending" ELSE "ReadyNone"

\* mutant: the state is inspected before the queue
PollNextResultStateFirst(q, state) ==
    IF state \in {"Closing", "Closed"} THEN "ReadyNone"
    ELSE IF q = <<>> THEN "Pending" ELSE "ReadySome"

\* poll_next: the branch on queue.is_empty()
PollNextResult(q, state) ==
    IF q = <<>> THEN PollNextEmpty(state) ELSE "ReadySome"

\* poll_next: the item pop_front returns
PollNextItem(q) == IF q = <<>> THEN NoMsg ELSE Head(q)

\* poll_next: the queue it leaves
PollNextQueue(q) == IF q = <<>> THEN q ELSE Tail(q)

\* mutant: the empty branch returns without parking the caller
PollNextWakerNoPark(q, wk, w) == wk

\* poll_next: the waker cell it leaves
PollNextWaker(q, wk, w) == IF q = <<>> THEN w ELSE wk

\* the poll_next results so far: none yet, only items, a Pending, a Ready(None)
PollHistNext(h, res) ==
    CASE res = "ReadyNone" -> "ended"
      [] res = "Pending"   -> IF h = "ended" THEN h ELSE "starved"
      [] OTHER             -> IF h = "none" THEN "fed" ELSE h

PollNext(w) ==
    /\ Live
    /\ LET res  == PollNextResult(queue, ready_state)
           item == PollNextItem(queue)
       IN
        /\ waker' = PollNextWaker(queue, waker, w)
        /\ queue' = PollNextQueue(queue)
        /\ delivered' = IF res = "ReadySome" THEN Append(delivered, item) ELSE delivered
        /\ pollHist' = PollHistNext(pollHist, res)
        /\ suspended' = Polled(suspended, w, "poll_next", res)
        /\ last' = Op("poll_next", res, item)
    /\ sent' = <<>>
    /\ UNCHANGED <<sockVars, tasks, sinkVars, dropped, panicked, arrived>>

\* -------------------------------------------------------------------- Sink
\* mutant: Closing is still taken as writable
PollReadyResultClosingOk(state) ==
    CASE state = "Connecting"           -> "Pending"
      [] state \in {"Open", "Closing"}  -> "ReadyOk"
      [] OTHER                          -> "ReadyErrConnectionClosed"

\* poll_ready: the match on ready_state()
PollReadyResult(state) ==
    CASE state = "Connecting" -> "Pending"
      [] state = "Open"       -> "ReadyOk"
      [] OTHER                -> "ReadyErrConnectionClosed"

PollReady(w) ==
    /\ Live
    /\ LET res == PollReadyResult(ready_state) IN
        /\ suspended' = Polled(suspended, w, "poll_ready", res)
        /\ last' = Op("poll_ready", res, NoMsg)
    /\ sent' = <<>>
    /\ UNCHANGED <<sockVars, queue, waker, tasks, sinkVars, dropped, panicked,
                   histVars>>

\* mutant: Connecting falls into the catch-all arm
StartSendResultNoConnecting(state, ok) ==
    CASE state = "Open" -> IF ok THEN "Ok" ELSE "Panic"
      [] OTHER          -> "ErrConnectionClosed"

\* start_send: the match on ready_state(); in Open the unwrap of the send result
StartSendResult(state, ok) ==
    CASE state = "Connecting" -> "ErrConnectionNotReady"
      [] state = "Open"       -> IF ok THEN "Ok" ELSE "Panic"
      [] OTHER                -> "ErrConnectionClosed"

\* start_send: whether it calls a send primitive
StartSendCalls(state) == state = "Open"

\* start_send: the primitive the match on the item picks
SendPrimitive(item) ==
    IF item.tag = "Binary" THEN "send_with_u8_array" ELSE "send_with_str"

StartSend(item, ok) ==
    /\ Live
    /\ LET res == StartSendResult(ready_state, ok) IN
        /\ sent' = IF StartSendCalls(ready_state)
                     THEN <<[prim |-> SendPrimitive(item), item |-> item]>>
                     ELSE <<>>
        /\ IF res = "Panic"
             THEN Abort("start_send", item)
             ELSE /\ last' = Op("start_send", res, item)
                  /\ UNCHANGED <<onclose, queue, waker, tasks, panicked, suspended>>
    /\ UNCHANGED <<readyState, sinkVars, dropped, histVars>>

\* mutant: poll_flush answers from the connection state, like poll_ready
PollFlushResultByState ==
    IF ready_state = "Open" THEN "ReadyOk" ELSE "ReadyErrConnectionClosed"

\* poll_flush: Poll::Ready( Ok(()) )
PollFlushResult == "ReadyOk"

PollFlush ==
    /\ Live
    /\ last' = Op("poll_flush", PollFlushResult, NoMsg)
    /\ sent' = <<>>
    /\ UNCHANGED <<sockVars, queue, waker, tasks, sinkVars, dropped, panicked,
                   suspended, histVars>>

\* mutant: close is requested whenever the socket is not yet Closed
PollCloseIssuesUnlessClosed(state) == state # "Closed"

\* poll_close: whether it calls ws.close()
PollCloseIssues(state) == state = "Connecting" \/ state = "Open"

\* poll_close: unwrap_throw of the close result, then the match on the state
\* read at entry, with the expect of the spawn result
PollCloseResult(state, closeOk, spawnOk) ==
    IF PollCloseIssues(state) /\ ~closeOk THEN "Panic"
    ELSE IF state = "Closed" THEN "ReadyOk"
    ELSE IF spawnOk THEN "Pending" ELSE "Panic"

PollClose(w, closeOk, spawnOk) ==
    /\ Live
    /\ LET state  == ready_state
           res    == PollCloseResult(state, closeOk, spawnOk)
           issues == PollCloseIssues(state)
       IN
        /\ res = "Pending" => Len(tasks) < MaxTasks
        /\ closeReqs' = IF issues THEN closeReqs + 1 ELSE closeReqs
        /\ readyState' = IF issues THEN SocketClose(readyState, closeOk) ELSE readyState
        /\ IF res = "Panic"
             THEN Abort("poll_close", NoMsg)
             ELSE /\ tasks' = IF res = "Pending"
                                THEN Append(tasks, [waker |-> w, st |-> "spawned"])
                                ELSE tasks
                  /\ suspended' = Polled(suspended, w, "poll_close", res)
                  /\ last' = Op("poll_close", res, NoMsg)
                  /\ UNCHANGED <<onclose, queue, waker, panicked>>
    /\ sent' = <<>>
    /\ UNCHANGED <<dropCloses, dropped, histVars>>

\* --------------------------------------------------------- Close-Wait task
\* wake_on_close, first poll: future_event hands its callback to
\* ws.set_onclose, which replaces whatever handler the socket held. The
\* executor polls the tasks it was handed in spawn order.
TaskRegister(t) ==
    /\ panicked = "none"
    /\ t \in 1..Len(tasks)
    /\ tasks[t].st = "spawned"
    /\ \A u \in 1..(t - 1) : tasks[u].st # "spawned"
    /\ tasks' = [tasks EXCEPT ![t].st = "listening"]
    /\ onclose' = t
    /\ last' = Idle
    /\ sent' = <<>>
    /\ UNCHANGED <<readyState, queue, waker, sinkVars, dropped, panicked,
                   suspended, histVars>>

\* wake_on_close, after the await: waker.wake()
TaskWake(t) ==
    /\ panicked = "none"
    /\ t \in 1..Len(tasks)
    /\ tasks[t].st = "fired"
    /\ tasks' = [tasks EXCEPT ![t].st = "done"]
    /\ suspended' = Wake(suspended, tasks[t].waker)
    /\ last' = Idle
    /\ sent' = <<>>
    /\ UNCHANGED <<sockVars, queue, waker, sinkVars, dropped, panicked, histVars>>

\* -------------------------------------------------------------------- Drop
\* drop: ws.close().expect( .. )
DropResult(ok) == IF ok THEN "Done" ELSE "Panic"

\* drop: whether it calls ws.close()
DropCloses(state) == TRUE

\* drop: the adapter's fields (queue, waker cell, closure) are freed; spawned
\* Close-Wait tasks own their clones and live on
Drop(ok) ==
    /\ Live
    /\ LET res    == DropResult(ok)
           closes == DropCloses(ready_state)
       IN
        /\ dropCloses' = IF closes THEN dropCloses + 1 ELSE dropCloses
        /\ readyState' = IF closes THEN SocketClose(readyState, ok) ELSE readyState
        /\ IF res = "Panic"
             THEN Abort("drop", NoMsg)
             ELSE /\ last' = Op("drop", res, NoMsg)
                  /\ queue' = <<>>
                  /\ waker' = NoWaker
                  /\ UNCHANGED <<onclose, tasks, panicked, suspended>>
    /\ dropped' = TRUE
    /\ sent' = <<>>
    /\ UNCHANGED <<closeReqs, histVars>>

\* ------------------------------------------------------------ specification
Next ==
    \/ HostOpen
    \/ HostClosing
    \/ HostClose
    \/ \E evt \in MsgEvents(Len(arrived) + 1) : OnMesg(evt)
    \/ \E w \in Wakers : PollNext(w)
    \/ \E w \in Wakers : PollReady(w)
    \/ \E item \in Items, ok \in BOOLEAN : StartSend(item, ok)
    \/ PollFlush
    \/ \E w \in Wakers, closeOk \in BOOLEAN, spawnOk \in BOOLEAN : PollClose(w, closeOk, spawnOk)
    \/ \E t \in 1..MaxTasks : TaskRegister(t)
    \/ \E t \in 1..MaxTasks : TaskWake(t)
    \/ \E ok \in BOOLEAN : Drop(ok)

Spec == Init /\ [][Next]_vars

\* ------------------------------------------------------------------ claims
IsPrefix(a, b) == Len(a) <= Len(b) /\ \A i \in 1..Len(a) : a[i] = b[i]

\* C1: the messages poll_next has returned are at all times a prefix of the
\* messages the callback appended, in order, none duplicated or skipped (what
\* is not yet returned is still queued, in order); a poll_next returns Pending
\* or Ready(None) only once every message that arrived before it - so all N
\* that arrived before the first poll - has been returned.
C1_FifoPrefix ==
    /\ IsPrefix(delivered, arrived)
    /\ Live => delivered \o queue = arrived
    /\ (last.op = "poll_next" /\ last.res \in {"Pending", "ReadyNone"})
         => delivered = arrived

\* C1 witness: MaxMsgs messages arrived before the first poll_next, which
\* returned the first of them.
C1_Witness ==
    /\ last.op = "poll_next"
    /\ last.pre.hist = "none"
    /\ Len(last.pre.queue) = MaxMsgs
    /\ last.res = "ReadySome"
    /\ last.item = arrived[1]

\* C2: once a poll_next has returned Ready(None), every later poll_next
\* returns Ready(None), whatever socket events happened in between.
C2_StickyEnd ==
    (last.op = "poll_next" /\ last.pre.hist = "ended") => last.res = "ReadyNone"

\* C2 witness: a poll_next after the stream had ended, on a connection that
\* had carried messages.
C2_Witness ==
    /\ last.op = "poll_next"
    /\ last.pre.hist = "ended"
    /\ last.res = "ReadyNone"
    /\ Len(delivered) > 0

\* a wake of w is on its way: a Close-Wait task holding w has seen the close
\* event and has yet to call waker.wake()
ResumePending(w) ==
    \E t \in 1..Len(tasks) : tasks[t].waker = w /\ tasks[t].st = "fired"

\* C3: a task suspended on poll_next (Pending, its waker parked in the cell)
\* is resumed once the socket has closed. Once the socket is Closed no message
\* and no second close event can come, so in every state with the socket
\* Closed and the task still suspended its resume must be on its way.
C3_ParkedResumedOnClose ==
    \A w \in Wakers :
        (Live /\ suspended[w] = "poll_next" /\ waker = w /\ readyState = 3)
            => ResumePending(w)

\* C4: poll_next with a non-empty queue returns the front item and removes
\* exactly it, in every connection state; with an empty queue it returns
\* Pending in Connecting or Open and Ready(None) in Closing or Closed.
C4_PollNextResult ==
    last.op = "poll_next" =>
        IF last.pre.queue # <<>>
          THEN /\ last.res = "ReadySome"
               /\ last.item = Head(last.pre.queue)
               /\ queue = Tail(last.pre.queue)
          ELSE /\ queue = <<>>
               /\ last.pre.rs \in {0, 1} => last.res = "Pending"
               /\ last.pre.rs \in {2, 3} => last.res = "ReadyNone"

\* C4 witness: a queued message is returned although the socket is Closed.
C4_Witness ==
    /\ last.op = "poll_next"
    /\ last.pre.rs = 3
    /\ last.res = "ReadySome"

\* C5: poll_ready returns Ready(Ok) exactly when the socket is Open, Pending
\* when Connecting, Ready(Err(ConnectionClosed)) when Closing or Closed, and
\* changes neither queue, waker cell nor socket.
C5_PollReady ==
    last.op = "poll_ready" =>
        /\ last.res = "ReadyOk" <=> last.pre.rs = 1
        /\ last.pre.rs = 0 => last.res = "Pending"
        /\ last.pre.rs \in {2, 3} => last.res = "ReadyErrConnectionClosed"
        /\ Snapshot = last.pre
        /\ sent = <<>>

\* C5 witness: poll_ready refused on a Closing socket.
C5_Witness ==
    /\ last.op = "poll_ready"
    /\ last.pre.rs = 2
    /\ last.res = "ReadyErrConnectionClosed"

\* C6 as claimed: in Open start_send hands the item to the send primitive
\* exactly once and returns Ok; in Connecting it returns
\* Err(ConnectionNotReady), in Closing or Closed Err(ConnectionClosed), and in
\* the error cases nothing is sent and nothing changes.
C6_StartSendAsClaimed ==
    last.op = "start_send" =>
        /\ readyState = 1 => last.res = "Ok" /\ Len(sent) = 1
        /\ readyState = 0 => last.res = "ErrConnectionNotReady"
        /\ readyState \in {2, 3} => last.res = "ErrConnectionClosed"
        /\ readyState # 1 => sent = <<>> /\ Snapshot = last.pre

\* C6 amended: as claimed, except that in Open the call returns Ok only when
\* the send primitive accepts the item; when the primitive reports a failure
\* the call panics (it returns neither Ok nor Err), the item having been
\* handed over once.
C6_StartSend ==
    last.op = "start_send" =>
        /\ readyState = 1 =>
              /\ last.res \in {"Ok", "Panic"}
              /\ sent = <<[prim |-> IF last.item.tag = "Binary"
                                      THEN "send_with_u8_array"
                                      ELSE "send_with_str",
                           item |-> last.item]>>
              /\ last.res = "Ok" => Snapshot = last.pre /\ panicked = "none"
              /\ last.res = "Panic" => panicked = "start_send"
        /\ readyState = 0 => last.res = "ErrConnectionNotReady"
        /\ readyState \in {2, 3} => last.res = "ErrConnectionClosed"
        /\ readyState # 1 => sent = <<>> /\ Snapshot = last.pre /\ panicked = "none"

\* C6 witness: start_send in Open whose send primitive reported a failure.
C6_Witness ==
    /\ last.op = "start_send"
    /\ readyState = 1
    /\ last.res = "Panic"
    /\ Len(sent) = 1

\* C7: poll_close requests a close only when it observes Connecting or Open,
\* never in Closing or Closed, so all poll_close calls together issue at most
\* one close request.
C7_OneCloseRequest ==
    /\ closeReqs <= 1
    /\ (last.op = "poll_close" /\ last.res # "Panic") =>
          IF last.pre.rs \in {0, 1}
            THEN closeReqs + dropCloses = last.pre.ncloses + 1
            ELSE closeReqs + dropCloses = last.pre.ncloses

\* C7 witness: a poll_close on a Closing or Closed socket, after the one that
\* issued the close request.
C7_Witness ==
    /\ last.op = "poll_close"
    /\ last.pre.rs \in {2, 3}
    /\ last.pre.ncloses = 1
    /\ closeReqs = 1

\* C8: every poll_close call that returned Pending is resumed once the close
\* event has fired, whichever continuation it supplied. The close event fires
\* once, so in every state with the socket Closed and a task still suspended
\* on poll_close that task's resume must be on its way.
C8_CloseWaitersResumed ==
    \A w \in Wakers :
        (panicked = "none" /\ suspended[w] = "poll_close" /\ readyState = 3)
            => ResumePending(w)

\* C9: poll_flush returns Ready(Ok) in every connection state and changes no
\* adapter or socket state.
C9_PollFlush ==
    last.op = "poll_flush" =>
        /\ last.res = "ReadyOk"
        /\ Snapshot = last.pre
        /\ sent = <<>>

\* C9 witness: poll_flush on a Closed socket.
C9_Witness ==
    /\ last.op = "poll_flush"
    /\ last.pre.rs = 3
    /\ last.res = "ReadyOk"

\* C10: dropping the adapter invokes the socket's close in every state, and a
\* failure of that close is not escalated: the drop completes normally.
C10_DropClosesQuietly ==
    last.op = "drop" =>
        /\ dropCloses = 1
        /\ last.res = "Done"
        /\ panicked = "none"

\* a Close-Wait task that has yet to see the close event
TaskWaiting(ts) == \E t \in 1..Len(ts) : ts[t].st \in {"spawned", "listening"}

\* C11: a drop while a Close-Wait task is still waiting completes without
\* waiting for that task: it returns normally, having invoked the socket's
\* close exactly once and having left the task as it was; and a Close-Wait
\* task resumes its continuation only once the close event has fired.
C11_DropWithTaskPending ==
    /\ (last.op = "drop" /\ TaskWaiting(last.pre.tasks)) =>
          /\ last.res = "Done"
          /\ panicked = "none"
          /\ dropCloses = 1
          /\ tasks = last.pre.tasks
    /\ \A t \in 1..Len(tasks) :
          tasks[t].st \in {"fired", "done"} => readyState = 3

\* C12: a message event whose payload cannot be decoded (neither a string
\* nor an ArrayBuffer) is skipped by the callback: it returns without a
\* panic and leaves the Inbound Queue as it was.
C12_MalformedSkipped ==
    (last.op = "on_mesg" /\ last.item.tag = "blob") =>
        /\ last.res # "Panic"
        /\ panicked = "none"
        /\ queue = last.pre.queue

C14_OneWakerSlot ==
    /\ waker \in Wakers \cup {NoWaker}
    /\ (last.op = "poll_next" /\ last.pre.queue = <<>>) =>
          /\ waker \in Wakers
          /\ last.res = "Pending" => suspended[waker] = "poll_next"
    /\ (last.op = "poll_next" /\ last.pre.queue # <<>>) => waker = last.pre.waker
    /\ (last.op = "on_mesg" /\ last.res # "Panic") =>
          /\ waker = NoWaker
          /\ last.pre.waker = NoWaker <=> last.res = "NoWake"
          /\ last.pre.waker # NoWaker =>
                last.res = "Woke" /\ suspended[last.pre.waker] = "no"

\* C14 witness: after a poll_next parked its caller, a first Message Callback
\* took and resumed it and a second one found the cell empty.
C14_Witness ==
    /\ last.op = "on_mesg"
    /\ last.res = "NoWake"
    /\ last.pre.hist = "starved"
    /\ Len(last.pre.queue) = 1
    /\ Len(arrived) = 2
    /\ waker = NoWaker

\* C15: poll_close returns Ready(Ok) exactly when the socket is Closed once
\* the call has issued its close request, if any, and then spawns no
\* Close-Wait task; in every other case it returns Pending, having spawned
\* one Close-Wait task that holds the caller's continuation; it has no other
\* outcome.
C15_PollCloseResult ==
    last.op = "poll_close" =>
        /\ last.res \in {"ReadyOk", "Pending"}
        /\ last.res = "ReadyOk" <=> readyState = 3
        /\ last.res = "ReadyOk" => tasks = last.pre.tasks
        /\ last.res = "Pending" =>
              /\ Len(tasks) = Len(last.pre.tasks) + 1
              /\ tasks[Len(tasks)].st = "spawned"
              /\ suspended[tasks[Len(tasks)].waker] = "poll_close"

\* the Close-Wait tasks holding w that the close event has resolved
Resolved(w) ==
    {t \in 1..Len(tasks) : tasks[t].waker = w /\ tasks[t].st \in {"fired", "done"}}

\* C16: however many Close-Wait tasks repeated poll_close calls spawned, the
\* close event makes at most one task per continuation call wake: no
\* continuation is resumed twice by the Close-Wait mechanism.
C16_NoDoubleResume ==
    \A w \in Wakers : Cardinality(Resolved(w)) <= 1

\* C16 witness: the same continuation called poll_close twice, two Close-Wait
\* tasks registered, the close event fired and the continuation was resumed.
C16_Witness ==
    /\ readyState = 3
    /\ \E w \in Wakers :
          /\ Cardinality({t \in 1..Len(tasks) : tasks[t].waker = w}) >= 2
          /\ \E t \in Resolved(w) : tasks[t].st = "done"
          /\ \A t \in 1..Len(tasks) : tasks[t].st \in {"listening", "done"}

\* C17: no adapter operation panics, except that start_send panics when the
\* socket's send primitive fails in Open - then exactly one send was tried
\* and the call returned neither Ok nor Err.
C17_OnlySendIsFatal ==
    /\ panicked \in {"none", "start_send"}
    /\ last.res = "Panic" =>
          /\ last.op = "start_send"
          /\ readyState = 1
          /\ Len(sent) = 1

\* C18: a task that got Pending from poll_ready while the socket was
\* Connecting is resumed when the socket becomes Open: in every state with
\* the socket Open and the task still suspended on poll_ready its resume
\* must be on its way.
C18_ReadyResumedOnOpen ==
    \A w \in Wakers :
        (Live /\ readyState = 1 /\ suspended[w] = "poll_ready")
            => ResumePending(w)

====
